---- MODULE Spec2Model ----
(***************************************************************************)
(* The scaffolder action publish:gitlab:create-issue                       *)
(* (createPublishGitlabIssueAction), in the two revisions of               *)
(* gitlabIssue.ts kept in the repository:                                  *)
(*   "gitlabIssue.ts"  plugins/scaffolder-backend/.../publish/gitlabIssue.ts*)
(*   "part_000"        unnamed/part_000                                    *)
(*                                                                         *)
(* A string is a sequence of atoms (its pieces), so that template literals *)
(* are concatenations and "contains" is an infix test.  An optional value  *)
(* (a field that may be undefined) is None or Some(v).                     *)
(***************************************************************************)
EXTENDS Integers, Sequences, FiniteSets, TLC

\* ------------------------------------------------------------------ bounds
\* longest sequence of files the directory serializer returns
MaxFiles == 2

\* ------------------------------------------------------- optional values
None == [some |-> FALSE]
Some(v) == [some |-> TRUE, val |-> v]

\* JavaScript truthiness of an optional string: undefined and "" are falsy
Truthy(o) == o.some /\ o.val # <<>>

\* a ?? b : b only when a is undefined (an empty string is kept)
NullishCoalesce(a, b) == IF a.some THEN a ELSE b

\* ---------------------------------------------------------------- strings
\* s occurs in t as a contiguous piece
Contains(t, s) ==
  \E k \in 0..(Len(t) - Len(s)) : SubSeq(t, k + 1, k + Len(s)) = s

\* the pieces of s between occurrences of the atom sep (String.split)
RECURSIVE Split(_, _)
Split(s, sep) ==
  IF \A k \in 1..Len(s) : s[k] # sep
  THEN <<s>>
  ELSE LET k == CHOOSE j \in 1..Len(s) :
                  s[j] = sep /\ \A m \in 1..(j - 1) : s[m] # sep
       IN  <<SubSeq(s, 1, k - 1)>> \o Split(SubSeq(s, k + 1, Len(s)), sep)

\* parts joined with the string sep between them (Array.join(sep))
RECURSIVE Join(_, _)
Join(parts, sep) ==
  IF parts = <<>> THEN <<>>
  ELSE IF Len(parts) = 1 THEN parts[1]
  ELSE parts[1] \o sep \o Join(Tail(parts), sep)

\* ----------------------------------------------------------------- errors
InputError(message) == [name |-> "InputError", message |-> message]

\* `${e}` : Error.prototype.toString, "<name>: <message>"
ErrorToString(e) == <<e.name, ": ">> \o e.message

\* ------------------------------------------------- the integration registry
\* options.integrations: per host, the kind of integration and its config
Integrations ==
  [h \in {"gitlab.com", "gitlab.local", "github.com"} |->
     CASE h = "gitlab.com" ->
            [type |-> "gitlab",
             config |-> [baseUrl |-> <<"https://", "gitlab.com">>,
                         token |-> Some(<<"cfg-token">>)]]
       [] h = "gitlab.local" ->
            [type |-> "gitlab",
             config |-> [baseUrl |-> <<"https://", "gitlab.local">>,
                         token |-> None]]
       [] h = "github.com" ->
            [type |-> "github",
             config |-> [baseUrl |-> <<"https://", "github.com">>,
                         token |-> Some(<<"gh-token">>)]]]

\* integrations.byHost(host): the integration of any kind for the host
ByHost(host) ==
  IF host \in DOMAIN Integrations THEN Some(Integrations[host]) ELSE None

\* mutant: the lookup not restricted to GitLab integrations
GitlabByHost_AnyKind(host) == ByHost(host)

\* integrations.gitlab.byHost(host): the GitLab integration, or undefined
GitlabByHost(host) ==
  IF host \in DOMAIN Integrations /\ Integrations[host].type = "gitlab"
  THEN Some(Integrations[host]) ELSE None

\* ------------------------------------------------------------ parseRepoUrl
\* <host>/<owner>/<repo>; an input error when the shape is another or no
\* integration exists for the host
ParseRepoUrl(repoUrl) ==
  LET parts == Split(repoUrl, "/")
      shaped == /\ Len(parts) = 3
                /\ \A k \in 1..3 : Len(parts[k]) = 1
  IN  IF ~shaped
      THEN [ok |-> FALSE,
            error |-> InputError(<<"Invalid repo URL passed to publisher: ">>
                                 \o repoUrl)]
      ELSE IF ~ByHost(parts[1][1]).some
      THEN [ok |-> FALSE,
            error |-> InputError(<<"No matching integration configuration for host ">>
                                 \o parts[1])]
      ELSE [ok |-> TRUE, host |-> parts[1], owner |-> parts[2],
            repo |-> parts[3]]

\* ---------------------------------------------------- resolveSafeChildPath
\* ctx.workspacePath, as its segments
WorkspacePath == << <<"tmp">>, <<"ws">> >>

\* path.resolve: the segments of base followed by those of rel, "." and ""
\* dropped and ".." removing the segment before it (never above the root)
RECURSIVE Normalize(_, _)
Normalize(done, segs) ==
  IF segs = <<>> THEN done
  ELSE LET s == Head(segs)
       IN  IF s = <<>> \/ s = <<".">>
           THEN Normalize(done, Tail(segs))
           ELSE IF s = <<"..">>
           THEN Normalize(IF done = <<>> THEN <<>>
                          ELSE SubSeq(done, 1, Len(done) - 1), Tail(segs))
           ELSE Normalize(done \o <<s>>, Tail(segs))

PathResolve(base, rel) == Normalize(base, Split(rel, "/"))

IsChildPath(base, path) ==
  Len(path) >= Len(base) /\ SubSeq(path, 1, Len(base)) = base

\* the resolved path, or an input error when it leaves base (no clamping)
ResolveSafeChildPath(base, rel) ==
  LET target == PathResolve(base, rel)
  IN  IF IsChildPath(base, target)
      THEN [ok |-> TRUE, path |-> target]
      ELSE [ok |-> FALSE,
            error |-> InputError(<<"Relative path is not allowed to refer to a directory outside its parent">>)]

\* ------------------------------------------------------- the two revisions
Versions == {"gitlabIssue.ts", "part_000"}

\* schema.output.properties: the output keys the action declares
OutputSchema(ver) ==
  IF ver = "part_000"
  THEN {"projectid", "projectPath", "mergeRequestURL"}
  ELSE {"projectid", "projectPath", "issueUrl"}

\* the key of the third ctx.output call
UrlOutputKey(ver) ==
  IF ver = "part_000" THEN "mergeRequestUrl" ELSE "issueUrl"

\* ------------------------------------------------------ the handler's steps
DeprecationWarning ==
  <<"Property \"projectid\" is deprecated and no longer to needed to create a MR">>

\* mutant: the deprecated projectid no longer overrides the parsed path
ProjectPathOf_NoOverride(in, loc) == loc.owner \o <<"/">> \o loc.repo

\* mutant: owner and repo in the wrong order
ProjectPathOf_Swapped(in, loc) ==
  IF Truthy(in.projectid)
  THEN in.projectid.val
  ELSE loc.repo \o <<"/">> \o loc.owner

\* let projectPath = `${owner}/${repo}`; if (ctx.input.projectid) projectPath = it
ProjectPathOf(in, loc) ==
  IF Truthy(in.projectid)
  THEN in.projectid.val
  ELSE loc.owner \o <<"/">> \o loc.repo

\* mutant: the warning dropped
WarningsOf_Never(in) == <<>>

\* if (ctx.input.projectid) ctx.logger.warn(deprecationWarning)
WarningsOf(in) ==
  IF Truthy(in.projectid) THEN <<DeprecationWarning>> ELSE <<>>

\* mutant: the negation of the input token lost
TokenMissing_LostNegation(configToken, inputToken) ==
  ~Truthy(configToken) /\ Truthy(inputToken)

\* !integrationConfig.config.token && !ctx.input.token
TokenMissing(configToken, inputToken) ==
  ~Truthy(configToken) /\ ~Truthy(inputToken)

\* const token = ...
TokenOf(ver, in, config) ==
  IF ver = "part_000"
  THEN NullishCoalesce(in.token, config.token)
  ELSE config.token

\* const tokenType = ...
TokenTypeOf(ver, in) ==
  IF ver = "part_000" /\ Truthy(in.token) THEN "oauthToken" ELSE "token"

\* new Gitlab({ host: baseUrl, [tokenType]: token })
NewGitlab(baseUrl, tokenType, token) ==
  [host |-> baseUrl, kind |-> tokenType, token |-> token]

\* mutant: path.resolve without the containment check
SafeTargetPath_Unchecked(in) ==
  [ok |-> TRUE, path |-> PathResolve(WorkspacePath, in.targetPath)]

\* resolveSafeChildPath(ctx.workspacePath, ctx.input.targetPath)
SafeTargetPath(in) == ResolveSafeChildPath(WorkspacePath, in.targetPath)

\* Buffer.toString(): the bytes decoded, one character per (ASCII) byte
CharOf(b) == CASE b = 88 -> "X" [] b = 89 -> "Y" [] OTHER -> "?"
BufferToString(bytes) == [k \in 1..Len(bytes) |-> CharOf(bytes[k])]

\* fileContents.find(file => file.path === ctx.input.targetPath)?.content.toString()
RECURSIVE FindByPath(_, _)
FindByPath(files, path) ==
  IF files = <<>> THEN None
  ELSE IF Head(files).path = path THEN Some(Head(files))
  ELSE FindByPath(Tail(files), path)

\* mutant: the first serialized file taken, whatever its path
DescriptionOf_FirstFile(ver, files, in) ==
  IF ver = "part_000"
  THEN Some(Join([k \in 1..Len(files) |->
                     BufferToString(files[k].content)], <<",">>))
  ELSE IF files # <<>> THEN Some(BufferToString(files[1].content)) ELSE None

\* const desc = ...
DescriptionOf(ver, files, in) ==
  IF ver = "part_000"
  THEN Some(Join([k \in 1..Len(files) |->
                     BufferToString(files[k].content)], <<",">>))
  ELSE LET file == FindByPath(files, in.targetPath)
       IN  IF file.some THEN Some(BufferToString(file.val.content)) ELSE None

\* mutant: the label left out
IssueOf_NoLabels(in, description) ==
  [title |-> in.title, description |-> description, labels |-> <<>>]

\* const issue = { title, description: desc, labels: ['onboarding'] }
IssueOf(in, description) ==
  [title |-> in.title, description |-> description,
   labels |-> << <<"onboarding">> >>]

\* mutant: the legacy key projectid no longer written
OutputCalls_NoLegacyKey(ver, path, issueRes) ==
  << <<"projectPath", path>>,
     <<UrlOutputKey(ver), issueRes.web_url>> >>

\* the three ctx.output calls, in order
OutputCalls(ver, path, issueRes) ==
  << <<"projectid", path>>,
     <<"projectPath", path>>,
     <<UrlOutputKey(ver), issueRes.web_url>> >>

\* mutant: the message without the project path
CreateFailed_NoPath(path, e) ==
  InputError(<<"Creating the issue failed ">> \o ErrorToString(e))

\* catch (e) { throw new InputError(`Creating the issue to ${projectPath} failed ${e}`) }
CreateFailed(path, e) ==
  InputError(<<"Creating the issue to ">> \o path \o <<" failed ">>
             \o ErrorToString(e))

\* mutant: the lookup moved inside the try block
ShowFailed_Wrapped(path, e) ==
  InputError(<<"Creating the issue to ">> \o path \o <<" failed ">>
             \o ErrorToString(e))

\* a rejection of await api.Projects.show(projectPath): not in any try block
ShowFailed(path, e) == e

\* ------------------------------------------------------------------ inputs
Invocations == {1}

RepoUrls ==
  { <<"gitlab.com", "/", "org", "/", "repo">>,
    <<"gitlab.local", "/", "org", "/", "repo">>,
    <<"github.com", "/", "org", "/", "repo">>,
    <<"unknown.host", "/", "org", "/", "repo">>,
    <<"gitlab.com", "/", "org">> }

Titles == { <<"Onboarding">>, <<>> }

TargetPaths ==
  { <<"a.md">>,
    <<"docs", "/", "..", "/", "b.md">>,
    <<"..", "/", "..", "/", "etc">> }

OptionalTokens == { None, Some(<<>>), Some(<<"oauth-token">>) }

OptionalProjectIds == { None, Some(<<>>), Some(<<"grp", "/", "proj">>) }

\* ctx.input
Inputs ==
  [repoUrl : RepoUrls, title : Titles, targetPath : TargetPaths,
   token : OptionalTokens, projectid : OptionalProjectIds]

\* ------------------------------------------- the collaborators' responses
\* what serializeDirectoryContents may find: path and content (bytes)
SerializedFiles ==
  { [path |-> <<"a.md">>, content |-> <<88>>],
    [path |-> <<"b.md">>, content |-> <<89>>],
    [path |-> <<"docs", "/", "c.md">>, content |-> <<89, 88>>] }

\* the sequences of at most n different members of S, in any order
RECURSIVE SeqsUpTo(_, _)
SeqsUpTo(S, n) ==
  IF n = 0 THEN { <<>> }
  ELSE LET shorter == SeqsUpTo(S, n - 1)
       IN  shorter \cup
           UNION { { Append(q, x) : x \in { y \in S : \A k \in 1..Len(q) : q[k] # y } }
                   : q \in shorter }

FileLists == SeqsUpTo(SerializedFiles, MaxFiles)

\* api.Projects.show resolves to a project
Projects == { [id |-> 7], [id |-> 8] }

\* api.Issues.create resolves to an issue
IssueResponses ==
  { [web_url |-> <<"https://gitlab/issues/1">>],
    [web_url |-> <<"https://gitlab/issues/2">>] }

\* what a collaborator may reject or throw with
SerializeErrors == { [name |-> "Error", message |-> <<"ENOENT">>] }
ShowErrors == { [name |-> "GitbeakerRequestError", message |-> <<"404 Not Found">>],
                [name |-> "GitbeakerRequestError", message |-> <<"401 Unauthorized">>] }
CreateErrors == { [name |-> "GitbeakerRequestError", message |-> <<"403 Forbidden">>],
                  [name |-> "Error", message |-> <<"socket hang up">>] }
OutputErrors == { [name |-> "Error", message |-> <<"output sink failed">>] }

\* ------------------------------------------------------------------- state
VARIABLES
  version,      \* which revision of the action is running
  input,        \* ctx.input of each invocation
  pc,           \* where each invocation is: start, serialize, show, create, done
  calls,        \* the calls each invocation has made, in order
  warned,       \* the messages passed to ctx.logger.warn
  projectPath,  \* the local projectPath, once computed
  api,          \* the Gitlab client, once constructed
  serialized,   \* the path passed to serializeDirectoryContents
  fileContents, \* what serializeDirectoryContents resolved to
  desc,         \* the local desc, once computed
  shown,        \* the path passed to api.Projects.show
  projects,     \* what api.Projects.show resolved to
  created,      \* the arguments of api.Issues.create
  issueRes,     \* what api.Issues.create resolved to
  output,       \* the (key, value) pairs passed to ctx.output, in order
  rejection,    \* the collaborator call that rejected or threw, and its error
  thrown        \* the error the handler rejected with

vars ==
  <<version, input, pc, calls, warned, projectPath, api, serialized,
    fileContents, desc, shown, projects, created, issueRes, output, rejection,
    thrown>>

\* the state when the host has invoked the handler for the invocations I,
\* each with an input of ins, and none has run yet
InitFor(I, ins) ==
  /\ version \in Versions
  /\ input \in [I -> ins]
  /\ pc = [i \in I |-> "start"]
  /\ calls = [i \in I |-> <<>>]
  /\ warned = [i \in I |-> <<>>]
  /\ projectPath = [i \in I |-> None]
  /\ api = [i \in I |-> None]
  /\ serialized = [i \in I |-> None]
  /\ fileContents = [i \in I |-> None]
  /\ desc = [i \in I |-> None]
  /\ shown = [i \in I |-> None]
  /\ projects = [i \in I |-> None]
  /\ created = [i \in I |-> None]
  /\ issueRes = [i \in I |-> None]
  /\ output = [i \in I |-> <<>>]
  /\ rejection = [i \in I |-> None]
  /\ thrown = [i \in I |-> None]

Init == InitFor(Invocations, Inputs)

\* ----------------------------------------------------------------- actions
\* The handler from its first line to its first await (or its throw): what
\* it called, what it built and what it threw, if it threw.
HandlerPrefix(ver, in) ==
  LET loc == ParseRepoUrl(in.repoUrl)
  IN
  IF ~loc.ok
  THEN [calls |-> <<"parseRepoUrl">>, warned |-> <<>>, projectPath |-> None,
        api |-> None, serialized |-> None, thrown |-> Some(loc.error)]
  ELSE
  LET path == ProjectPathOf(in, loc)
      warnings == WarningsOf(in)
      warnCalls == [k \in 1..Len(warnings) |-> "logger.warn"]
      integrationConfig == GitlabByHost(loc.host[1])
      upToByHost == <<"parseRepoUrl">> \o warnCalls \o <<"gitlab.byHost">>
  IN
  IF ~integrationConfig.some
  THEN [calls |-> upToByHost, warned |-> warnings, projectPath |-> Some(path),
        api |-> None, serialized |-> None,
        thrown |-> Some(InputError(
                     <<"No matching integration configuration for host ">>
                     \o loc.host \o <<", please check your integrations config">>))]
  ELSE
  LET config == integrationConfig.val.config
  IN
  IF TokenMissing(config.token, in.token)
  THEN [calls |-> upToByHost, warned |-> warnings, projectPath |-> Some(path),
        api |-> None, serialized |-> None,
        thrown |-> Some(InputError(<<"No token available for host ">>
                                   \o loc.host))]
  ELSE
  LET client == NewGitlab(config.baseUrl, TokenTypeOf(ver, in),
                          TokenOf(ver, in, config))
      targetPath == SafeTargetPath(in)
      upToJoin == upToByHost \o <<"new Gitlab", "resolveSafeChildPath">>
  IN
  IF ~targetPath.ok
  THEN [calls |-> upToJoin, warned |-> warnings, projectPath |-> Some(path),
        api |-> Some(client), serialized |-> None,
        thrown |-> Some(targetPath.error)]
  ELSE [calls |-> upToJoin \o <<"serializeDirectoryContents">>,
        warned |-> warnings, projectPath |-> Some(path),
        api |-> Some(client), serialized |-> Some(targetPath.path),
        thrown |-> None]

\* The host invokes the handler: it runs to its first await or to its throw.
Start(i) ==
  /\ pc[i] = "start"
  /\ LET r == HandlerPrefix(version, input[i])
     IN  /\ calls' = [calls EXCEPT ![i] = r.calls]
         /\ warned' = [warned EXCEPT ![i] = r.warned]
         /\ projectPath' = [projectPath EXCEPT ![i] = r.projectPath]
         /\ api' = [api EXCEPT ![i] = r.api]
         /\ serialized' = [serialized EXCEPT ![i] = r.serialized]
         /\ thrown' = [thrown EXCEPT ![i] = r.thrown]
         /\ pc' = [pc EXCEPT ![i] = IF r.thrown.some THEN "done" ELSE "serialize"]
  /\ UNCHANGED <<version, input, fileContents, desc, shown, projects, created,
                 issueRes, output, rejection>>

\* mutant: projectPath kept in the closure of the action, shared by its
\* invocations: the lookup gets the path another invocation wrote
SerializeReturns_SharedPath(i, files) ==
  /\ pc[i] = "serialize"
  /\ fileContents' = [fileContents EXCEPT ![i] = Some(files)]
  /\ desc' = [desc EXCEPT ![i] = DescriptionOf(version, files, input[i])]
  /\ LET others == { j \in DOMAIN pc : j # i /\ projectPath[j].some }
     IN  shown' = [shown EXCEPT ![i] =
                     IF others = {} THEN projectPath[i]
                     ELSE projectPath[CHOOSE j \in others : TRUE]]
  /\ calls' = [calls EXCEPT ![i] = @ \o <<"Projects.show">>]
  /\ pc' = [pc EXCEPT ![i] = "show"]
  /\ UNCHANGED <<version, input, warned, projectPath, api, serialized,
                 projects, created, issueRes, output, rejection, thrown>>

\* serializeDirectoryContents resolves: desc is computed and the project
\* is looked up.
SerializeReturns(i, files) ==
  /\ pc[i] = "serialize"
  /\ fileContents' = [fileContents EXCEPT ![i] = Some(files)]
  /\ desc' = [desc EXCEPT ![i] = DescriptionOf(version, files, input[i])]
  /\ shown' = [shown EXCEPT ![i] = projectPath[i]]
  /\ calls' = [calls EXCEPT ![i] = @ \o <<"Projects.show">>]
  /\ pc' = [pc EXCEPT ![i] = "show"]
  /\ UNCHANGED <<version, input, warned, projectPath, api, serialized,
                 projects, created, issueRes, output, rejection, thrown>>

\* serializeDirectoryContents rejects: nothing catches it.
SerializeRaises(i, e) ==
  /\ pc[i] = "serialize"
  /\ rejection' = [rejection EXCEPT ![i] =
                     Some([from |-> "serializeDirectoryContents", error |-> e])]
  /\ thrown' = [thrown EXCEPT ![i] = Some(e)]
  /\ pc' = [pc EXCEPT ![i] = "done"]
  /\ UNCHANGED <<version, input, calls, warned, projectPath, api, serialized,
                 fileContents, desc, shown, projects, created, issueRes,
                 output>>

\* api.Projects.show resolves: the issue is built and its creation requested.
ShowReturns(i, project) ==
  /\ pc[i] = "show"
  /\ projects' = [projects EXCEPT ![i] = Some(project)]
  /\ created' = [created EXCEPT ![i] =
                   Some([id |-> project.id, issue |-> IssueOf(input[i], desc[i])])]
  /\ calls' = [calls EXCEPT ![i] = @ \o <<"Issues.create">>]
  /\ pc' = [pc EXCEPT ![i] = "create"]
  /\ UNCHANGED <<version, input, warned, projectPath, api, serialized,
                 fileContents, desc, shown, issueRes, output, rejection,
                 thrown>>

\* mutant: a rejected lookup tried once more
ShowRaises_Retry(i, e) ==
  /\ pc[i] = "show"
  /\ IF Cardinality({ k \in 1..Len(calls[i]) : calls[i][k] = "Projects.show" }) = 1
     THEN /\ calls' = [calls EXCEPT ![i] = @ \o <<"Projects.show">>]
          /\ UNCHANGED <<pc, thrown, rejection>>
     ELSE /\ rejection' = [rejection EXCEPT ![i] =
                             Some([from |-> "Projects.show", error |-> e])]
          /\ thrown' = [thrown EXCEPT ![i] = Some(e)]
          /\ pc' = [pc EXCEPT ![i] = "done"]
          /\ UNCHANGED calls
  /\ UNCHANGED <<version, input, warned, projectPath, api, serialized,
                 fileContents, desc, shown, projects, created, issueRes, output>>

\* api.Projects.show rejects.
ShowRaises(i, e) ==
  /\ pc[i] = "show"
  /\ rejection' = [rejection EXCEPT ![i] =
                     Some([from |-> "Projects.show", error |-> e])]
  /\ thrown' = [thrown EXCEPT ![i] = Some(ShowFailed(projectPath[i].val, e))]
  /\ pc' = [pc EXCEPT ![i] = "done"]
  /\ UNCHANGED <<version, input, calls, warned, projectPath, api, serialized,
                 fileContents, desc, shown, projects, created, issueRes,
                 output>>

\* api.Issues.create resolves and the three outputs are recorded; failAt = 0
\* when ctx.output never throws, otherwise the call of ctx.output that throws
\* e, inside the try block.
CreateReturns(i, res, failAt, e) ==
  /\ pc[i] = "create"
  /\ issueRes' = [issueRes EXCEPT ![i] = Some(res)]
  /\ LET outs == OutputCalls(version, projectPath[i].val, res)
         made == IF failAt = 0 THEN Len(outs) ELSE failAt
     IN  /\ output' = [output EXCEPT ![i] =
                         SubSeq(outs, 1, IF failAt = 0 THEN Len(outs) ELSE failAt - 1)]
         /\ calls' = [calls EXCEPT ![i] = @ \o [k \in 1..made |-> "ctx.output"]]
         /\ rejection' = [rejection EXCEPT ![i] =
                            IF failAt = 0 THEN None
                            ELSE Some([from |-> "ctx.output", error |-> e])]
         /\ thrown' = [thrown EXCEPT ![i] =
                         IF failAt = 0 THEN None
                         ELSE Some(CreateFailed(projectPath[i].val, e))]
  /\ pc' = [pc EXCEPT ![i] = "done"]
  /\ UNCHANGED <<version, input, warned, projectPath, api, serialized,
                 fileContents, desc, shown, projects, created>>

\* mutant: the catch block swallows the rejection
CreateRaises_Swallowed(i, e) ==
  /\ pc[i] = "create"
  /\ rejection' = [rejection EXCEPT ![i] =
                     Some([from |-> "Issues.create", error |-> e])]
  /\ pc' = [pc EXCEPT ![i] = "done"]
  /\ UNCHANGED <<version, input, calls, warned, projectPath, api, serialized,
                 fileContents, desc, shown, projects, created, issueRes, output,
                 thrown>>

\* api.Issues.create rejects: caught and thrown again as an InputError.
CreateRaises(i, e) ==
  /\ pc[i] = "create"
  /\ rejection' = [rejection EXCEPT ![i] =
                     Some([from |-> "Issues.create", error |-> e])]
  /\ thrown' = [thrown EXCEPT ![i] = Some(CreateFailed(projectPath[i].val, e))]
  /\ pc' = [pc EXCEPT ![i] = "done"]
  /\ UNCHANGED <<version, input, calls, warned, projectPath, api, serialized,
                 fileContents, desc, shown, projects, created, issueRes,
                 output>>

\* one step of invocation i: the host starts it, or the call it awaits
\* resolves or rejects
Step(i) ==
  \/ Start(i)
  \/ \E files \in FileLists : SerializeReturns(i, files)
  \/ \E e \in SerializeErrors : SerializeRaises(i, e)
  \/ \E project \in Projects : ShowReturns(i, project)
  \/ \E e \in ShowErrors : ShowRaises(i, e)
  \/ \E res \in IssueResponses, failAt \in 0..3, e \in OutputErrors :
       CreateReturns(i, res, failAt, e)
  \/ \E e \in CreateErrors : CreateRaises(i, e)

Next == \E i \in Invocations : Step(i)

Spec == Init /\ [][Next]_vars

\* ------------------------------------- two invocations of one action
PairInvocations == {1, 2}

\* inputs that reach the awaits, with and without token and projectid
PairInputs ==
  { in \in Inputs : /\ in.repoUrl = <<"gitlab.com", "/", "org", "/", "repo">>
                    /\ in.title = <<"Onboarding">>
                    /\ in.targetPath = <<"a.md">>
                    /\ in.token # Some(<<>>)
                    /\ in.projectid # Some(<<>>) }

PairFileLists == { files \in FileLists : Len(files) <= 1 }

InitPair == InitFor(PairInvocations, PairInputs)

\* the two invocations interleave at their awaits
NextPair ==
  \E i \in PairInvocations :
    \/ Start(i)
    \/ \E files \in PairFileLists : SerializeReturns(i, files)
    \/ \E e \in SerializeErrors : SerializeRaises(i, e)
    \/ \E project \in Projects : ShowReturns(i, project)
    \/ \E e \in ShowErrors : ShowRaises(i, e)
    \/ \E res \in IssueResponses, failAt \in {0, 3}, e \in OutputErrors :
         CreateReturns(i, res, failAt, e)
    \/ \E e \in CreateErrors : CreateRaises(i, e)

PairSpec == InitPair /\ [][NextPair]_vars

\* the host runs the handler it invoked, and every awaited call eventually
\* resolves or rejects
FairSpec == Spec /\ \A i \in Invocations : WF_vars(Step(i))

\* ------------------------------------------------------------------ claims
\* What a claim reads off an invocation's input, computed from the input
\* itself and the registry.
WellFormed(i) ==
  /\ Len(input[i].repoUrl) = 5
  /\ input[i].repoUrl[2] = "/" /\ input[i].repoUrl[4] = "/"
HostOf(i) == input[i].repoUrl[1]
OwnerSlashRepo(i) == <<input[i].repoUrl[3], "/", input[i].repoUrl[5]>>
HasGitlabConfig(i) ==
  /\ WellFormed(i)
  /\ HostOf(i) \in DOMAIN Integrations
  /\ Integrations[HostOf(i)].type = "gitlab"
ConfiguredToken(i) == Integrations[HostOf(i)].config.token
Absent(o) == ~o.some \/ o.val = <<>>
Escapes(i) ==
  ~IsChildPath(WorkspacePath, PathResolve(WorkspacePath, input[i].targetPath))
Called(i, op) == \E k \in 1..Len(calls[i]) : calls[i][k] = op
NothingPublished(i) ==
  /\ ~serialized[i].some /\ ~shown[i].some /\ ~created[i].some
  /\ output[i] = <<>>
  /\ ~Called(i, "serializeDirectoryContents") /\ ~Called(i, "Projects.show")
  /\ ~Called(i, "Issues.create") /\ ~Called(i, "ctx.output")
OutputValues(i, key) ==
  { output[i][k][2] : k \in { j \in 1..Len(output[i]) : output[i][j][1] = key } }

\* C1: whenever the client is constructed, an explicit input token makes it
\* an oauthToken client holding that token, and no explicit token with a
\* configured token makes it a token client holding the configured token.
C1_CredentialPrecedence ==
  \A i \in Invocations :
    api[i].some =>
      /\ input[i].token.some =>
           /\ api[i].val.kind = "oauthToken"
           /\ api[i].val.token = input[i].token
      /\ (~input[i].token.some /\ ConfiguredToken(i).some) =>
           /\ api[i].val.kind = "token"
           /\ api[i].val.token = ConfiguredToken(i)

\* C2: with a GitLab integration for the host and neither a configured nor
\* an input token, the invocation ends with the InputError "No token
\* available for host <host>", and no client is constructed, no directory
\* serialized, no remote call made and no output recorded.
C2_NoTokenFails ==
  \A i \in Invocations :
    (HasGitlabConfig(i) /\ Absent(ConfiguredToken(i)) /\ Absent(input[i].token)) =>
      /\ ~api[i].some /\ ~Called(i, "new Gitlab")
      /\ NothingPublished(i)
      /\ pc[i] # "start" =>
           /\ pc[i] = "done"
           /\ thrown[i] = Some(InputError(<<"No token available for host ",
                                            HostOf(i)>>))

C2_Witness ==
  \E i \in Invocations :
    /\ HasGitlabConfig(i) /\ ~ConfiguredToken(i).some /\ ~input[i].token.some
    /\ pc[i] = "done"
    /\ Called(i, "gitlab.byHost")

\* C3: when the registry has an integration for the parsed host but no GitLab
\* configuration, the invocation ends with an InputError naming the missing
\* integration configuration, and the serializer, the project lookup, the
\* issue creation and the output sink are never called.
C3_NoIntegrationAborts ==
  \A i \in Invocations :
    (WellFormed(i) /\ ~HasGitlabConfig(i)) =>
      /\ NothingPublished(i)
      /\ pc[i] # "start" =>
           /\ pc[i] = "done"
           /\ thrown[i].some
           /\ thrown[i].val.name = "InputError"
           /\ Contains(thrown[i].val.message,
                       <<"No matching integration configuration for host ",
                         HostOf(i)>>)

C3_Witness ==
  \E i \in Invocations :
    /\ WellFormed(i) /\ ~HasGitlabConfig(i)
    /\ pc[i] = "done"
    /\ Called(i, "gitlab.byHost")

\* C4: when targetPath resolves outside the workspace root, the serializer,
\* the project lookup, the issue creation and the output sink are never
\* called, and the invocation ends with an InputError; when it got as far as
\* the safe join, with the error of the join.
C4_Containment ==
  \A i \in Invocations :
    Escapes(i) =>
      /\ NothingPublished(i)
      /\ pc[i] # "start" =>
           /\ pc[i] = "done"
           /\ thrown[i].some
           /\ thrown[i].val.name = "InputError"
           /\ Called(i, "resolveSafeChildPath") =>
                thrown[i] = Some(ResolveSafeChildPath(WorkspacePath,
                                                      input[i].targetPath).error)

C4_Witness ==
  \E i \in Invocations :
    /\ Escapes(i)
    /\ pc[i] = "done"
    /\ Called(i, "resolveSafeChildPath")
    /\ api[i].some

\* C5 as stated: whenever projectid is supplied, whatever string it is, the
\* path looked up and the values recorded under projectid and projectPath
\* equal it.
C5_AnySuppliedProjectid ==
  \A i \in Invocations :
    input[i].projectid.some =>
      /\ shown[i].some => shown[i].val = input[i].projectid.val
      /\ OutputValues(i, "projectid") \subseteq {input[i].projectid.val}
      /\ OutputValues(i, "projectPath") \subseteq {input[i].projectid.val}

\* C5 amended: whenever a non-empty projectid is supplied, the path looked up
\* and the values recorded under projectid and projectPath equal it, whatever
\* owner/repo the repoUrl holds.
C5_NonEmptyProjectid ==
  \A i \in Invocations :
    (input[i].projectid.some /\ input[i].projectid.val # <<>>) =>
      /\ shown[i].some => shown[i].val = input[i].projectid.val
      /\ OutputValues(i, "projectid") \subseteq {input[i].projectid.val}
      /\ OutputValues(i, "projectPath") \subseteq {input[i].projectid.val}
      /\ (pc[i] = "done" /\ ~thrown[i].some) =>
           /\ OutputValues(i, "projectid") = {input[i].projectid.val}
           /\ OutputValues(i, "projectPath") = {input[i].projectid.val}

C5_Witness ==
  \E i \in Invocations :
    /\ input[i].projectid.some /\ input[i].projectid.val # <<>>
    /\ WellFormed(i)
    /\ input[i].projectid.val # OwnerSlashRepo(i)
    /\ pc[i] = "done" /\ ~thrown[i].some
    /\ shown[i].some
    /\ OutputValues(i, "projectid") # {}

\* C6: when projectid is absent from the input, the path looked up and the
\* values recorded under projectid and projectPath equal owner/repo as the
\* repoUrl holds them.
C6_DefaultProjectPath ==
  \A i \in Invocations :
    (~input[i].projectid.some /\ WellFormed(i)) =>
      /\ shown[i].some => shown[i].val = OwnerSlashRepo(i)
      /\ OutputValues(i, "projectid") \subseteq {OwnerSlashRepo(i)}
      /\ OutputValues(i, "projectPath") \subseteq {OwnerSlashRepo(i)}
      /\ (pc[i] = "done" /\ ~thrown[i].some) =>
           /\ OutputValues(i, "projectid") = {OwnerSlashRepo(i)}
           /\ OutputValues(i, "projectPath") = {OwnerSlashRepo(i)}

C6_Witness ==
  \E i \in Invocations :
    /\ ~input[i].projectid.some /\ WellFormed(i)
    /\ pc[i] = "done" /\ ~thrown[i].some
    /\ shown[i].some
    /\ OutputValues(i, "projectPath") # {}

\* C7: when api.Issues.create rejects, the invocation ends with an InputError
\* whose message contains the project path that was looked up and the text of
\* the rejection, and no output is recorded.
C7_CreateFailureWrapped ==
  \A i \in Invocations :
    (rejection[i].some /\ rejection[i].val.from = "Issues.create") =>
      /\ pc[i] = "done"
      /\ thrown[i].some
      /\ thrown[i].val.name = "InputError"
      /\ Contains(thrown[i].val.message, shown[i].val)
      /\ Contains(thrown[i].val.message, ErrorToString(rejection[i].val.error))
      /\ output[i] = <<>>

C7_Witness ==
  \E i \in Invocations :
    /\ rejection[i].some /\ rejection[i].val.from = "Issues.create"
    /\ created[i].some
    /\ thrown[i].some

\* C8: when api.Projects.show rejects, the invocation ends with that very
\* error (not an InputError), api.Issues.create is never called and no output
\* is recorded.
C8_LookupFailurePropagates ==
  \A i \in Invocations :
    (rejection[i].some /\ rejection[i].val.from = "Projects.show") =>
      /\ pc[i] = "done"
      /\ thrown[i] = Some(rejection[i].val.error)
      /\ thrown[i].val.name # "InputError"
      /\ ~created[i].some /\ ~Called(i, "Issues.create")
      /\ output[i] = <<>>

C8_Witness ==
  \E i \in Invocations :
    /\ rejection[i].some /\ rejection[i].val.from = "Projects.show"
    /\ shown[i].some
    /\ pc[i] = "done"

\* C9: when the handler completes normally, exactly three outputs were
\* recorded: the project path that was looked up under projectid and under
\* projectPath, and the web_url api.Issues.create resolved to; and the issue
\* was created under the id api.Projects.show resolved to.
C9_ThreeOutputs ==
  \A i \in Invocations :
    (pc[i] = "done" /\ ~thrown[i].some) =>
      /\ issueRes[i].some /\ projects[i].some /\ created[i].some
      /\ Len(output[i]) = 3
      /\ \E a, b, c \in 1..3 :
           /\ {a, b, c} = 1..3
           /\ output[i][a] = <<"projectid", shown[i].val>>
           /\ output[i][b] = <<"projectPath", shown[i].val>>
           /\ output[i][c][2] = issueRes[i].val.web_url
           /\ output[i][c][1] \notin {"projectid", "projectPath"}
      /\ created[i].val.id = projects[i].val.id

C9_Witness ==
  \E i \in Invocations :
    /\ pc[i] = "done" /\ ~thrown[i].some
    /\ Len(output[i]) = 3
    /\ projects[i] = Some([id |-> 8])

\* C10: every key passed to ctx.output is a key the running revision's
\* output schema declares.
C10_OutputKeysDeclared ==
  \A i \in Invocations :
    \A k \in 1..Len(output[i]) : output[i][k][1] \in OutputSchema(version)

\* the decoded contents of the files, one after the other
ContentsInOrder(files) ==
  Join([k \in 1..Len(files) |-> BufferToString(files[k].content)], <<>>)

\* C11: under the concatenate-all revision (part_000), once the serializer
\* has resolved, the description is the files' contents one after the other
\* in the order the serializer returned them, and it is the description of
\* the issue submitted.
C11_ConcatenateAll ==
  \A i \in Invocations :
    (version = "part_000" /\ fileContents[i].some) =>
      /\ desc[i] = Some(ContentsInOrder(fileContents[i].val))
      /\ created[i].some => created[i].val.issue.description = desc[i]

\* C12: under the single-file revision (gitlabIssue.ts), once the serializer
\* has resolved, the description is the content of the first entry whose path
\* equals the targetPath input exactly, and undefined when no entry has that
\* path; either way the project is looked up next and the description is the
\* one of the issue submitted.
C12_SingleFile ==
  \A i \in Invocations :
    (version = "gitlabIssue.ts" /\ fileContents[i].some) =>
      LET files == fileContents[i].val
          matching == { k \in 1..Len(files) : files[k].path = input[i].targetPath }
      IN  /\ matching # {} =>
                \E k \in matching :
                  /\ \A m \in matching : k <= m
                  /\ desc[i] = Some(BufferToString(files[k].content))
          /\ matching = {} => desc[i] = None
          /\ shown[i].some /\ Called(i, "Projects.show")
          /\ created[i].some => created[i].val.issue.description = desc[i]

C12_Witness ==
  \E i \in Invocations :
    /\ version = "gitlabIssue.ts"
    /\ fileContents[i].some
    /\ Len(fileContents[i].val) = 2
    /\ fileContents[i].val[1].path # input[i].targetPath
    /\ fileContents[i].val[2].path = input[i].targetPath
    /\ created[i].some
    /\ created[i].val.issue.description = Some(<<"X">>)

\* the single-file revision with no entry for targetPath still submits
C12_WitnessNoMatch ==
  \E i \in Invocations :
    /\ version = "gitlabIssue.ts"
    /\ fileContents[i].some /\ fileContents[i].val # <<>>
    /\ created[i].some
    /\ created[i].val.issue.description = None

\* the repoUrl has the shape and a host the registry knows
Located(i) == WellFormed(i) /\ HostOf(i) \in DOMAIN Integrations

\* every ctx.logger.warn call comes before any api.Projects.show call
WarnBeforeLookup(i) ==
  \A k, m \in 1..Len(calls[i]) :
    (calls[i][k] = "logger.warn" /\ calls[i][m] = "Projects.show") => k < m

\* the error the handler ended with is the error of another step: a
\* collaborator's rejection, or one of the handler's own checks
FailureOfAnotherStep(i) ==
  \/ rejection[i].some
  \/ thrown[i] = Some(InputError(
                   <<"No matching integration configuration for host ",
                     HostOf(i), ", please check your integrations config">>))
  \/ thrown[i] = Some(InputError(<<"No token available for host ", HostOf(i)>>))
  \/ /\ Escapes(i)
     /\ thrown[i] = Some(ResolveSafeChildPath(WorkspacePath,
                                              input[i].targetPath).error)

\* C13 as stated: the warning is emitted in exactly the invocations whose
\* input contains projectid, before the project lookup, and an invocation
\* that warned fails only for the failure of another step.
C13_WarnsIffProjectidSupplied ==
  \A i \in Invocations :
    pc[i] # "start" =>
      /\ (warned[i] # <<>>) <=> input[i].projectid.some
      /\ Called(i, "logger.warn") <=> input[i].projectid.some
      /\ WarnBeforeLookup(i)
      /\ (warned[i] # <<>> /\ thrown[i].some) => FailureOfAnotherStep(i)

\* C13 amended: the warning is emitted, once, in exactly the invocations
\* whose input contains a non-empty projectid and whose repoUrl was parsed;
\* it is emitted before the project lookup, and an invocation that warned
\* fails only for the failure of another step.
C13_WarnsIffNonEmptyProjectid ==
  \A i \in Invocations :
    pc[i] # "start" =>
      /\ warned[i] = IF /\ input[i].projectid.some
                        /\ input[i].projectid.val # <<>>
                        /\ Located(i)
                     THEN <<DeprecationWarning>> ELSE <<>>
      /\ Cardinality({ k \in 1..Len(calls[i]) : calls[i][k] = "logger.warn" })
           = Len(warned[i])
      /\ WarnBeforeLookup(i)
      /\ (warned[i] # <<>> /\ thrown[i].some) => FailureOfAnotherStep(i)

C13_Witness ==
  \E i \in Invocations :
    /\ input[i].projectid.some /\ input[i].projectid.val # <<>>
    /\ warned[i] = <<DeprecationWarning>>
    /\ Called(i, "Projects.show")
    /\ pc[i] = "done" /\ ~thrown[i].some

\* the handler's calls in the order of its text, the optional warning aside
StepOrder ==
  <<"parseRepoUrl", "gitlab.byHost", "new Gitlab", "resolveSafeChildPath",
    "serializeDirectoryContents", "Projects.show", "Issues.create",
    "ctx.output", "ctx.output", "ctx.output">>
NotWarning(op) == op # "logger.warn"
StepsTaken(i) == SelectSeq(calls[i], NotWarning)

\* C14: the calls an invocation has made (the warning aside) are a prefix of
\* the fixed sequence parse, byHost, new Gitlab, safe join, serialize,
\* lookup, create, three outputs, so no step is repeated; and a step that
\* follows an await is only taken once the awaited call has resolved.
C14_StepsFormPrefix ==
  \A i \in Invocations :
    /\ Len(StepsTaken(i)) <= Len(StepOrder)
    /\ StepsTaken(i) = SubSeq(StepOrder, 1, Len(StepsTaken(i)))
    /\ Called(i, "serializeDirectoryContents") => api[i].some /\ serialized[i].some
    /\ Called(i, "Projects.show") => fileContents[i].some /\ shown[i].some
    /\ Called(i, "Issues.create") => projects[i].some /\ created[i].some
    /\ Called(i, "ctx.output") => issueRes[i].some
    /\ thrown[i].some => pc[i] = "done"

C14_Witness ==
  \E i \in Invocations :
    /\ StepsTaken(i) = StepOrder
    /\ pc[i] = "done" /\ ~thrown[i].some

\* C15: every invocation eventually ends, and stays ended with the same
\* outcome; it ends normally only if api.Issues.create resolved, nothing was
\* rejected and the three outputs were recorded; and whenever a collaborator
\* rejected, it ends with an error.
C15_EndsPublishedOrFailed ==
  /\ \A i \in Invocations : <>(pc[i] = "done")
  /\ [](\A i \in Invocations :
          /\ (pc[i] = "done" /\ ~thrown[i].some) =>
               /\ issueRes[i].some
               /\ ~rejection[i].some
               /\ Len(output[i]) = 3
          /\ rejection[i].some => (pc[i] = "done" /\ thrown[i].some))
  /\ [][\A i \in Invocations :
          pc[i] = "done" => /\ pc'[i] = "done"
                            /\ thrown'[i] = thrown[i]
                            /\ output'[i] = output[i]]_vars

C15_Witness ==
  \E i \in Invocations :
    /\ pc[i] = "done" /\ ~thrown[i].some
    /\ issueRes[i] = Some([web_url |-> <<"https://gitlab/issues/2">>])
    /\ Len(output[i]) = 3

\* C16: the issue passed to api.Issues.create has labels exactly
\* ["onboarding"] and the title of the input, whatever the files, the token
\* and projectid are.
C16_LabelsAndTitle ==
  \A i \in Invocations :
    created[i].some =>
      /\ created[i].val.issue.labels = << <<"onboarding">> >>
      /\ created[i].val.issue.title = input[i].title

C16_Witness ==
  \E i \in Invocations :
    /\ created[i].some
    /\ created[i].val.issue.title = <<"Onboarding">>
    /\ fileContents[i].val # <<>>
    /\ input[i].projectid.some /\ input[i].token.some

\* C17: once api.Issues.create has resolved, the invocation does not end
\* with the InputError "Creating the issue to <projectPath> failed ...".
C17_CreationErrorOnlyOnCreateFailure ==
  \A i \in Invocations :
    issueRes[i].some =>
      ~(/\ thrown[i].some
        /\ thrown[i].val.name = "InputError"
        /\ Contains(thrown[i].val.message, <<"Creating the issue to ">>))

\* C18: whenever the client is constructed, the credential it is given is
\* present and not empty.
C18_CredentialNeverEmpty ==
  \A i \in Invocations :
    api[i].some => (api[i].val.token.some /\ api[i].val.token.val # <<>>)

\* everything invocation i holds
Slice(i) ==
  <<input[i], pc[i], calls[i], warned[i], projectPath[i], api[i],
    serialized[i], fileContents[i], desc[i], shown[i], projects[i],
    created[i], issueRes[i], output[i], rejection[i], thrown[i]>>

\* what invocation i holds is what its own input and the responses to its
\* own calls make of it
OwnResults(i) ==
  LET r == HandlerPrefix(version, input[i])
  IN
  /\ pc[i] # "start" =>
       /\ projectPath[i] = r.projectPath
       /\ api[i] = r.api
       /\ serialized[i] = r.serialized
       /\ warned[i] = r.warned
  /\ fileContents[i].some =>
       /\ desc[i] = DescriptionOf(version, fileContents[i].val, input[i])
       /\ shown[i] = r.projectPath
  /\ projects[i].some =>
       created[i] = Some([id |-> projects[i].val.id,
                          issue |-> IssueOf(input[i], desc[i])])
  /\ issueRes[i].some =>
       LET outs == OutputCalls(version, r.projectPath.val, issueRes[i].val)
       IN  /\ Len(output[i]) <= Len(outs)
           /\ output[i] = SubSeq(outs, 1, Len(output[i]))
           /\ ~rejection[i].some => (output[i] = outs /\ ~thrown[i].some)
  /\ ~issueRes[i].some => output[i] = <<>>
  /\ rejection[i].some =>
       thrown[i] =
         IF rejection[i].val.from \in {"Issues.create", "ctx.output"}
         THEN Some(CreateFailed(r.projectPath.val, rejection[i].val.error))
         ELSE Some(rejection[i].val.error)
  /\ (pc[i] = "done" /\ ~rejection[i].some /\ ~issueRes[i].some) =>
       thrown[i] = r.thrown

\* C19: with two invocations of one action interleaved at their awaits, a
\* step changes what one invocation holds and nothing of the other, and what
\* each holds (project path, client, description, payload, outputs, error)
\* is determined by its own input and the responses to its own calls.
C19_InvocationsIsolated ==
  /\ [](\A i \in PairInvocations : OwnResults(i))
  /\ [][\A i, j \in PairInvocations :
          (i # j /\ Slice(i)' # Slice(i)) => Slice(j)' = Slice(j)]_vars

C19_Witness ==
  /\ input[1] # input[2]
  /\ pc[1] = "done" /\ ~thrown[1].some /\ Len(output[1]) = 3
  /\ pc[2] = "show"
  /\ shown[1] # shown[2]
  /\ api[1] # api[2]

====
